---- MODULE Spec2Model ----
(***************************************************************************)
(* Model of server.py: the static file server of the Dynamic Event         *)
(* Scheduler frontend.  main() checks the required frontend files, binds   *)
(* a socketserver.TCPServer on (HOST, PORT), tries to open a browser and   *)
(* runs serve_forever() until KeyboardInterrupt.  Requests are handled by  *)
(* CustomHTTPRequestHandler, a SimpleHTTPRequestHandler whose end_headers  *)
(* adds three CORS headers and which answers OPTIONS itself.               *)
(*                                                                         *)
(* The inherited parts of http.server / socketserver are modelled at the   *)
(* level of the request line (method, path, version), the response put on  *)
(* the wire (status line, headers, body) and the accept loop.  Signals are *)
(* modelled from the bind onwards.                                         *)
(***************************************************************************)
EXTENDS Integers, Sequences, FiniteSets, TLC

\* Number of client connections that arrive during one run.
MaxRequests == 2

required_files == {"index.html", "styles.css", "script.js"}

\* Paths a client asks for: one that is served when present, one that never exists.
RequestPaths == {"index.html", "does-not-exist.xyz"}
Paths == required_files \cup RequestPaths

Methods == {"GET", "HEAD", "OPTIONS", "POST"}

\* "HTTP/0.9" stands for a request line without a version ("GET /index.html").
Versions == {"HTTP/0.9", "HTTP/1.1"}

Absent == "<absent>"

\* The bytes stored in a file of the document root.
FileBytes(f) == "bytes of " \o f

Requests == [method : Methods, path : RequestPaths, version : Versions]

VARIABLES
    pc,          \* position of main(): check, bind, banner, browser, serving, stopped, exited
    docroot,     \* the directory of the script: path -> bytes or Absent
    port_free,   \* whether (HOST, PORT) can be bound
    socket,      \* listening socket: none, bound, closed
    exit_status, \* <<>> while the process runs, <<code>> once it has ended
    fault,       \* exception that left main() unhandled: none, OSError, KeyboardInterrupt
    browser,     \* outcome of webbrowser.open: none, opened, unavailable, error
    backlog,     \* connections queued on the listening socket, oldest first
    arrivals,    \* number of connections made so far
    active,      \* connections accepted and not yet shut down
    acceptLog,   \* ids of the accepted connections, in accept order
    served,      \* connections that were shut down, in order, with what was written
    interrupts   \* number of SIGINTs delivered so far

vars == <<pc, docroot, port_free, socket, exit_status, fault, browser,
          backlog, arrivals, active, acceptLog, served, interrupts>>

----------------------------------------------------------------------------
(* The request handler *)

CORS_ORIGIN == <<"Access-Control-Allow-Origin", "*">>
CORS_METHODS == <<"Access-Control-Allow-Methods", "GET, POST, OPTIONS">>
CORS_HEADERS == <<"Access-Control-Allow-Headers", "Content-Type">>

\* A handler object for one request, before anything is written.
NewHandler(req) ==
    [command |-> req.method, path |-> req.path, request_version |-> req.version,
     code |-> 0, status_buf |-> 0, buffer |-> <<>>,
     wire_status |-> 0, wire_headers |-> <<>>, wire_body |-> "",
     body_out |-> "", resolved |-> FALSE, flushed |-> FALSE]

\* BaseHTTPRequestHandler.send_header: buffered unless the request is HTTP/0.9.
send_header(h, keyword, value) ==
    IF h.request_version # "HTTP/0.9"
    THEN [h EXCEPT !.buffer = Append(@, <<keyword, value>>)]
    ELSE h

\* BaseHTTPRequestHandler.send_response: status line (not for HTTP/0.9), Server, Date.
send_response(h, code) ==
    LET h1 == [h EXCEPT !.code = code,
                        !.status_buf = IF h.request_version # "HTTP/0.9" THEN code ELSE 0]
    IN  send_header(send_header(h1, "Server", "SimpleHTTP"), "Date", "now")

\* BaseHTTPRequestHandler.end_headers: flush the buffered status line and headers.
base_end_headers(h) ==
    [h EXCEPT !.wire_status = h.status_buf,
              !.wire_headers = h.wire_headers \o h.buffer,
              !.buffer = <<>>,
              !.flushed = TRUE]

end_headers_one_missing(h) ==
    LET h1 == send_header(h, CORS_ORIGIN[1], CORS_ORIGIN[2])
        h2 == send_header(h1, CORS_METHODS[1], CORS_METHODS[2])
    IN  base_end_headers(h2)

\* CustomHTTPRequestHandler.end_headers
end_headers(h) ==
    LET h1 == send_header(h, CORS_ORIGIN[1], CORS_ORIGIN[2])
        h2 == send_header(h1, CORS_METHODS[1], CORS_METHODS[2])
        h3 == send_header(h2, CORS_HEADERS[1], CORS_HEADERS[2])
    IN  base_end_headers(h3)

ErrorBody(code) == "error page " \o ToString(code)

\* BaseHTTPRequestHandler.send_error: an error response with an HTML body
\* (no body for HEAD), finished through self.end_headers().
send_error(h, code) ==
    LET h1 == send_header(send_response(h, code), "Connection", "close")
        h2 == send_header(h1, "Content-Type", "text/html;charset=utf-8")
        h3 == send_header(h2, "Content-Length", "len")
        h4 == end_headers(h3)
    IN  IF h.command # "HEAD"
        THEN [h4 EXCEPT !.body_out = ErrorBody(code)]
        ELSE h4

send_head_wrong_file(h, root) ==
    LET h0 == [h EXCEPT !.resolved = TRUE]
    IN  IF root[h.path] = Absent
        THEN send_error(h0, 404)
        ELSE LET h1 == send_response(h0, 200)
                 h2 == send_header(h1, "Content-type", "guessed")
                 h3 == send_header(h2, "Content-Length", "len")
                 h4 == send_header(h3, "Last-Modified", "mtime")
                 h5 == end_headers(h4)
             IN  [h5 EXCEPT !.body_out = IF h.command = "GET" THEN root["styles.css"] ELSE ""]

\* SimpleHTTPRequestHandler.send_head, and the copy of the file that do_GET
\* makes after it: resolve the path under the document root, 404 when there
\* is no file, otherwise 200 and (for GET) the bytes of the file.
send_head(h, root) ==
    LET h0 == [h EXCEPT !.resolved = TRUE]
    IN  IF root[h.path] = Absent
        THEN send_error(h0, 404)
        ELSE LET h1 == send_response(h0, 200)
                 h2 == send_header(h1, "Content-type", "guessed")
                 h3 == send_header(h2, "Content-Length", "len")
                 h4 == send_header(h3, "Last-Modified", "mtime")
                 h5 == end_headers(h4)
             IN  [h5 EXCEPT !.body_out = IF h.command = "GET" THEN root[h.path] ELSE ""]

do_OPTIONS_resolves(h, root) == send_head(h, root)

\* CustomHTTPRequestHandler.do_OPTIONS
do_OPTIONS(h, root) == end_headers(send_response(h, 200))

\* BaseHTTPRequestHandler.handle_one_request: parse the request line, then
\* dispatch to do_<command>, or 501 when the class has no such method.
handle_one_request(req, root) ==
    LET h == NewHandler(req)
    IN  IF req.version = "HTTP/0.9" /\ req.method # "GET"
        THEN send_error(h, 400)
        ELSE IF req.method = "OPTIONS" THEN do_OPTIONS(h, root)
        ELSE IF req.method \in {"GET", "HEAD"} THEN send_head(h, root)
        ELSE send_error(h, 501)

\* What a client sees of a handler: the part already on the wire.
HasHeader(h, kv) == \E i \in 1..Len(h.wire_headers) : h.wire_headers[i] = kv

HasCORS(h) == HasHeader(h, CORS_ORIGIN) /\ HasHeader(h, CORS_METHODS) /\ HasHeader(h, CORS_HEADERS)

----------------------------------------------------------------------------
(* main() *)

missing_files_index_only(root) == {f \in {"index.html"} : root[f] = Absent}

missing_files(root) == {f \in required_files : root[f] = Absent}

Init ==
    /\ pc = "check"
    /\ docroot \in {r \in [Paths -> {Absent} \cup {FileBytes(f) : f \in Paths}] :
                      /\ \A f \in required_files : r[f] \in {Absent, FileBytes(f)}
                      /\ \A f \in Paths \ required_files : r[f] = Absent}
    /\ port_free \in BOOLEAN
    /\ socket = "none"
    /\ exit_status = <<>>
    /\ fault = "none"
    /\ browser = "none"
    /\ backlog = <<>>
    /\ arrivals = 0
    /\ active = {}
    /\ acceptLog = <<>>
    /\ served = <<>>
    /\ interrupts = 0

\* Lines 37-43: the required files are checked; sys.exit(1) when one is missing.
CheckFiles ==
    /\ pc = "check"
    /\ IF missing_files(docroot) # {}
       THEN /\ pc' = "exited"
            /\ exit_status' = <<1>>
       ELSE /\ pc' = "bind"
            /\ UNCHANGED exit_status
    /\ UNCHANGED <<docroot, port_free, socket, fault, browser, backlog, arrivals,
                   active, acceptLog, served, interrupts>>

with_exit_leaks(s) == s

\* TCPServer.__exit__ (and the except clause of TCPServer.__init__): server_close().
with_exit(s) == "closed"

\* Line 46: TCPServer((HOST, PORT), ...) binds and listens; when the address
\* cannot be bound the OSError leaves main() unhandled.
Bind ==
    /\ pc = "bind"
    /\ IF port_free
       THEN /\ socket' = "bound"
            /\ pc' = "banner"
            /\ UNCHANGED <<exit_status, fault>>
       ELSE /\ socket' = with_exit("bound")
            /\ pc' = "exited"
            /\ fault' = "OSError"
            /\ exit_status' = <<1>>
    /\ UNCHANGED <<docroot, port_free, browser, backlog, arrivals, active,
                   acceptLog, served, interrupts>>

\* Lines 47-58: the startup banner.
Banner ==
    /\ pc = "banner"
    /\ pc' = "browser"
    /\ UNCHANGED <<docroot, port_free, socket, exit_status, fault, browser, backlog,
                   arrivals, active, acceptLog, served, interrupts>>

BrowserOpen_error_escapes ==
    /\ pc = "browser"
    /\ \E outcome \in {"opened", "unavailable", "error"} :
         /\ browser' = outcome
         /\ IF outcome = "error"
            THEN /\ pc' = "exited"
                 /\ socket' = with_exit(socket)
                 /\ fault' = "Error"
                 /\ exit_status' = <<1>>
            ELSE /\ pc' = "serving"
                 /\ UNCHANGED <<socket, fault, exit_status>>
    /\ UNCHANGED <<docroot, port_free, backlog, arrivals, active, acceptLog,
                   served, interrupts>>

\* Lines 60-64: webbrowser.open returns True, returns False (no browser) or
\* raises; "except Exception: pass" swallows the error.
BrowserOpen ==
    /\ pc = "browser"
    /\ \E outcome \in {"opened", "unavailable", "error"} : browser' = outcome
    /\ pc' = "serving"
    /\ UNCHANGED <<docroot, port_free, socket, exit_status, fault, backlog, arrivals,
                   active, acceptLog, served, interrupts>>

----------------------------------------------------------------------------
(* httpd.serve_forever() *)

\* A client connects; the connection waits in the listen queue of the socket.
Connect ==
    /\ socket = "bound"
    /\ arrivals < MaxRequests
    /\ \E req \in Requests :
         backlog' = Append(backlog, [id |-> arrivals + 1, req |-> req])
    /\ arrivals' = arrivals + 1
    /\ UNCHANGED <<pc, docroot, port_free, socket, exit_status, fault, browser,
                   active, acceptLog, served, interrupts>>

CanAccept_threaded == pc = "serving" /\ backlog # <<>>

\* serve_forever calls _handle_request_noblock, which returns only after the
\* request was processed: the loop is back in select() when nothing is active.
CanAccept == pc = "serving" /\ backlog # <<>> /\ active = {}

\* get_request(): accept the oldest queued connection and construct its handler.
Accept ==
    /\ CanAccept
    /\ active' = active \cup {[id |-> Head(backlog).id, req |-> Head(backlog).req,
                               stage |-> "accepted", h |-> NewHandler(Head(backlog).req)]}
    /\ backlog' = Tail(backlog)
    /\ acceptLog' = Append(acceptLog, Head(backlog).id)
    /\ UNCHANGED <<pc, docroot, port_free, socket, exit_status, fault, browser,
                   arrivals, served, interrupts>>

\* handle_one_request up to the flush of the status line and the headers.
HandleRequest ==
    /\ pc = "serving"
    /\ \E c \in active :
         /\ c.stage = "accepted"
         /\ active' = (active \ {c}) \cup
                        {[c EXCEPT !.stage = "headers", !.h = handle_one_request(c.req, docroot)]}
    /\ UNCHANGED <<pc, docroot, port_free, socket, exit_status, fault, browser,
                   backlog, arrivals, acceptLog, served, interrupts>>

\* The body (the file copied by do_GET, the error page of send_error) is written.
WriteBody ==
    /\ pc = "serving"
    /\ \E c \in active :
         /\ c.stage = "headers"
         /\ active' = (active \ {c}) \cup
                        {[c EXCEPT !.stage = "written", !.h.wire_body = c.h.body_out]}
    /\ UNCHANGED <<pc, docroot, port_free, socket, exit_status, fault, browser,
                   backlog, arrivals, acceptLog, served, interrupts>>

\* finish() and shutdown_request(): the connection is closed, the loop goes on.
Finish ==
    /\ pc = "serving"
    /\ \E c \in active :
         /\ c.stage = "written"
         /\ active' = active \ {c}
         /\ served' = Append(served, [id |-> c.id, req |-> c.req, h |-> c.h,
                                      outcome |-> "complete"])
    /\ UNCHANGED <<pc, docroot, port_free, socket, exit_status, fault, browser,
                   backlog, arrivals, acceptLog, interrupts>>

HandlerFault_propagates ==
    /\ pc = "serving"
    /\ \E c \in active :
         /\ c.stage \in {"accepted", "headers"}
         /\ active' = active \ {c}
         /\ served' = Append(served, [id |-> c.id, req |-> c.req, h |-> c.h,
                                      outcome |-> "error"])
    /\ pc' = "exited"
    /\ socket' = with_exit(socket)
    /\ fault' = "OSError"
    /\ exit_status' = <<1>>
    /\ UNCHANGED <<docroot, port_free, browser, backlog, arrivals, acceptLog, interrupts>>

\* An Exception inside the handler (the client reset the connection, the pipe
\* broke): _handle_request_noblock reports it, closes the connection and
\* returns to the loop.
HandlerFault ==
    /\ pc = "serving"
    /\ \E c \in active :
         /\ c.stage \in {"accepted", "headers"}
         /\ active' = active \ {c}
         /\ served' = Append(served, [id |-> c.id, req |-> c.req, h |-> c.h,
                                      outcome |-> "error"])
    /\ UNCHANGED <<pc, docroot, port_free, socket, exit_status, fault, browser,
                   backlog, arrivals, acceptLog, interrupts>>

\* The active connections as log entries, lowest id first.
RECURSIVE Entries(_, _)
Entries(cs, outcome) ==
    IF cs = {} THEN <<>>
    ELSE LET c == CHOOSE x \in cs : \A y \in cs : x.id <= y.id
         IN  <<[id |-> c.id, req |-> c.req, h |-> c.h, outcome |-> outcome]>>
               \o Entries(cs \ {c}, outcome)

RECURSIVE Completed(_)
Completed(cs) ==
    IF cs = {} THEN <<>>
    ELSE LET c == CHOOSE x \in cs : \A y \in cs : x.id <= y.id
             hd == IF c.stage = "accepted" THEN handle_one_request(c.req, docroot) ELSE c.h
         IN  <<[id |-> c.id, req |-> c.req, h |-> [hd EXCEPT !.wire_body = hd.body_out],
                outcome |-> "complete"]>>
               \o Completed(cs \ {c})

AbortInFlight_completes(cs) == Completed(cs)

\* KeyboardInterrupt raised inside the handler: "except: shutdown_request(request);
\* raise" closes the connection as it is and the exception leaves serve_forever.
AbortInFlight(cs) == Entries(cs, "aborted")

\* SIGINT: Python raises KeyboardInterrupt in the main thread at the point it
\* has reached.  Inside "try: httpd.serve_forever()" it is caught (line 68);
\* anywhere else inside the with block it leaves main() unhandled, after
\* TCPServer.__exit__ closed the socket, and the process dies of the signal.
Interrupt ==
    /\ pc \in {"banner", "browser", "serving", "stopped"}
    /\ interrupts' = interrupts + 1
    /\ IF pc = "serving"
       THEN /\ pc' = "stopped"
            /\ served' = served \o AbortInFlight(active)
            /\ active' = {}
            /\ UNCHANGED <<socket, fault, exit_status>>
       ELSE /\ pc' = "exited"
            /\ socket' = with_exit(socket)
            /\ fault' = "KeyboardInterrupt"
            /\ exit_status' = <<130>>
            /\ UNCHANGED <<served, active>>
    /\ UNCHANGED <<docroot, port_free, browser, backlog, arrivals, acceptLog>>

\* Lines 69-70 were printed; the with block exits (server_close) and main() returns.
Shutdown ==
    /\ pc = "stopped"
    /\ socket' = with_exit(socket)
    /\ pc' = "exited"
    /\ exit_status' = <<0>>
    /\ UNCHANGED <<docroot, port_free, fault, browser, backlog, arrivals, active,
                   acceptLog, served, interrupts>>

Next ==
    \/ CheckFiles
    \/ Bind
    \/ Banner
    \/ BrowserOpen
    \/ Connect
    \/ Accept
    \/ HandleRequest
    \/ WriteBody
    \/ Finish
    \/ HandlerFault
    \/ Interrupt
    \/ Shutdown

Spec == Init /\ [][Next]_vars

----------------------------------------------------------------------------
(* Properties *)

\* Everything that was put on a wire so far: the responses of the connections
\* already shut down and of the active ones, once end_headers has flushed.
Responses == {served[i].h : i \in 1..Len(served)} \cup {c.h : c \in active}

Flushed == {h \in Responses : h.flushed}

CompleteEntries == {served[i] : i \in {j \in 1..Len(served) : served[j].outcome = "complete"}}

\* At least one of the required files is not in the document root.
SomeRequiredMissing == \E f \in required_files : docroot[f] = Absent

\* C1: when at least one of index.html, styles.css, script.js is missing from
\* the document root, main() ends with exit status 1 and never binds the
\* socket, never launches the browser and never serves a request.
C1_StartupGate ==
    SomeRequiredMissing =>
        /\ pc \in {"check", "exited"}
        /\ socket = "none"
        /\ browser = "none"
        /\ arrivals = 0 /\ acceptLog = <<>> /\ served = <<>>
        /\ pc = "exited" => (exit_status = <<1>> /\ fault = "none")
        /\ pc = "check" => exit_status = <<>>

C1_Witness ==
    /\ pc = "exited" /\ exit_status = <<1>> /\ socket = "none"
    /\ {f \in required_files : docroot[f] = Absent} = {"styles.css", "script.js"}

\* C2 as stated: every response the server sends, for any request method and
\* any status, carries the three CORS headers.
C2_Original == \A h \in Flushed : HasCORS(h)

\* C2 amended: every response that has a status line and a header section
\* carries the three CORS headers with the documented values, whatever the
\* method and the status; the responses to a request line parsed as HTTP/1.x
\* all have one.  The response to a request line without a version
\* (HTTP/0.9) has no status line and no header at all.
C2_CORSOnEveryHeaderSection ==
    \A h \in Flushed :
        /\ h.wire_status # 0 => HasCORS(h)
        /\ h.request_version # "HTTP/0.9" => (h.wire_status = h.code /\ h.code # 0 /\ HasCORS(h))
        /\ h.request_version = "HTTP/0.9" => (h.wire_status = 0 /\ h.wire_headers = <<>>)

C2_Witness ==
    /\ \E e \in CompleteEntries : e.h.wire_status = 404 /\ HasCORS(e.h)
    /\ \E e \in CompleteEntries : e.h.wire_status = 501 /\ HasCORS(e.h)

\* C3 as stated: an OPTIONS request to any path is answered with status 200,
\* an empty body and the three CORS headers, without file resolution.
C3_Original ==
    \A e \in CompleteEntries :
        e.req.method = "OPTIONS" =>
            /\ e.h.wire_status = 200 /\ e.h.wire_body = "" /\ HasCORS(e.h)
            /\ ~e.h.resolved

\* C3 amended: an OPTIONS request with an HTTP/1.x request line, to a path
\* that exists or not, is answered with status 200, an empty body and the
\* three CORS headers, and the path is never resolved; "OPTIONS <path>"
\* without a version is rejected by the request parsing (400, no headers),
\* also without file resolution.
C3_PreflightShortCircuit ==
    /\ \A h \in Flushed :
          h.command = "OPTIONS" =>
              /\ ~h.resolved
              /\ h.request_version # "HTTP/0.9" =>
                    (h.wire_status = 200 /\ h.body_out = "" /\ h.wire_body = "" /\ HasCORS(h))
              /\ h.request_version = "HTTP/0.9" => (h.code = 400 /\ h.wire_status = 0)
    /\ \A e \in CompleteEntries :
          (e.req.method = "OPTIONS" /\ e.req.version # "HTTP/0.9") =>
              (e.h.flushed /\ e.h.wire_status = 200 /\ e.h.wire_body = "")

C3_Witness ==
    /\ \E e \in CompleteEntries :
          /\ e.req.method = "OPTIONS" /\ e.req.path = "does-not-exist.xyz"
          /\ e.h.wire_status = 200 /\ HasCORS(e.h)
    /\ \E e \in CompleteEntries :
          /\ e.req.method = "OPTIONS" /\ e.req.path = "index.html"
          /\ e.h.wire_status = 200 /\ HasCORS(e.h)

\* C4: an interrupt delivered at any moment after the socket was bound makes
\* the server release the socket and end with exit status 0, without an
\* unhandled fault.
C4_GracefulShutdown ==
    (pc = "exited" /\ interrupts > 0) =>
        (socket = "closed" /\ exit_status = <<0>> /\ fault = "none")

\* The GET responses of C5: status and body of a completed GET.
GetAnswer(e) ==
    IF docroot[e.req.path] # Absent
    THEN e.h.wire_status = 200 /\ e.h.wire_body = docroot[e.req.path]
    ELSE e.h.wire_status = 404

C6_BrowserBestEffort ==
    /\ [](browser # "none" => socket # "none")
    /\ [][(pc = "browser" /\ browser' # browser) =>
            (pc' = "serving" /\ socket' = "bound" /\ exit_status' = <<>> /\ fault' = "none")]_vars
    /\ [](\A e \in CompleteEntries :
            LET hd == handle_one_request(e.req, docroot)
            IN  /\ e.h.wire_status = hd.wire_status
                /\ e.h.wire_headers = hd.wire_headers
                /\ e.h.wire_body = hd.body_out)
    /\ []((pc = "exited" /\ browser # "none") =>
            /\ fault \in {"none", "KeyboardInterrupt"}
            /\ fault = "none" => exit_status = <<0>>)

C6_Witness ==
    /\ browser = "error"
    /\ pc = "exited" /\ exit_status = <<0>>
    /\ \E e \in CompleteEntries : e.h.wire_status = 200 /\ e.h.wire_body = FileBytes("index.html")

\* C7: at most one request is being handled at any moment, a request is
\* shut down before the next connection is accepted, and the requests are
\* handled in the order the listener accepted them, which is arrival order.
C7_OneAtATime ==
    /\ Cardinality(active) <= 1
    /\ \A i \in 1..Len(acceptLog) : acceptLog[i] = i
    /\ Len(served) + Cardinality(active) = Len(acceptLog)
    /\ \A i \in 1..Len(served) : served[i].id = acceptLog[i]
    /\ \A c \in active : c.id = acceptLog[Len(acceptLog)]
    /\ \A i \in 1..Len(backlog) : backlog[i].id = Len(acceptLog) + i

C7_Witness ==
    /\ Len(served) = 1 /\ served[1].outcome = "complete"
    /\ \E c \in active : c.id = 2 /\ c.stage = "written"

\* C8 as stated: in every state the socket is either bound and served by the
\* accept loop or closed, and it is closed whenever the process has ended
\* after a bind.
C8_Original ==
    /\ socket = "bound" => pc = "serving"
    /\ (pc = "exited" /\ socket # "none") => socket = "closed"

\* C8 amended: the socket is bound exactly from the successful bind to the
\* exit of the with block: it is served by the accept loop while
\* serve_forever runs, and bound without being served only while the banner
\* is printed and the browser is launched and while the shutdown message is
\* printed.  Whenever the process has ended after trying to bind (interrupt
\* in the serve loop, interrupt before it, bind failure) the socket has
\* been closed.
C8_SocketLifecycle ==
    /\ socket = "bound" <=> pc \in {"banner", "browser", "serving", "stopped"}
    /\ socket = "none" <=> (pc \in {"check", "bind"} \/ (pc = "exited" /\ SomeRequiredMissing))
    /\ (pc = "exited" /\ ~SomeRequiredMissing) => socket = "closed"

C8_Witness ==
    /\ pc = "exited" /\ socket = "closed"
    /\ fault = "KeyboardInterrupt" /\ browser = "none"

\* C9 as stated: an interrupt that arrives while a request is being handled
\* does not abort it; the request completes its response.
C9_Original ==
    \A i \in 1..Len(served) : served[i].outcome # "aborted"

\* C9 amended: an interrupt that arrives while a request is being handled
\* takes effect at once: the connection of the request is closed with what
\* was written so far (possibly nothing, possibly the headers without the
\* body), the server leaves the serve loop, and no connection is accepted
\* afterwards.
C9_InterruptAbortsInFlight ==
    /\ [][(pc = "serving" /\ interrupts' # interrupts) =>
            /\ pc' = "stopped"
            /\ active' = {}
            /\ acceptLog' = acceptLog
            /\ Len(served') = Len(served) + Cardinality(active)
            /\ \A i \in 1..Len(served) : served'[i] = served[i]
            /\ \A c \in active :
                 \E i \in (Len(served) + 1)..Len(served') :
                    served'[i] = [id |-> c.id, req |-> c.req, h |-> c.h, outcome |-> "aborted"]]_vars
    /\ [](pc \in {"stopped", "exited"} => active = {})
    /\ [][pc # "serving" => (acceptLog' = acceptLog /\ served' = served)]_vars

C9_Witness ==
    /\ pc = "exited" /\ exit_status = <<0>>
    /\ \E i \in 1..Len(served) :
          /\ served[i].outcome = "aborted"
          /\ served[i].h.flushed /\ served[i].h.body_out # "" /\ served[i].h.wire_body = ""

\* C10: once the serve loop runs, only an interrupt ends it: after any
\* requests, failed ones and unsupported methods included, the server is
\* still bound and accepts the next connection.
C10_OnlyInterruptStops ==
    /\ [][(pc = "serving" /\ pc' # "serving") => interrupts' = interrupts + 1]_vars
    /\ [](pc = "serving" => (socket = "bound" /\ exit_status = <<>> /\ fault = "none"))
    /\ []((pc = "serving" /\ backlog # <<>> /\ active = {}) => ENABLED Accept)

C10_Witness ==
    /\ pc = "serving" /\ socket = "bound"
    /\ Len(served) = 2
    /\ served[1].outcome = "error"
    /\ served[2].outcome = "complete" /\ served[2].h.wire_status \in {404, 501}

====
